---- MODULE Spec2Model ----
(***************************************************************************)
(* Soil particle weathering models: the binary-split model (model.py) and  *)
(* the linear-growth model (linearGrowthModel.py).                        *)
(*                                                                         *)
(* Numbers.  The programs compute with Python numbers; the only division   *)
(* they perform is a halving.  A length is held here as an integer count   *)
(* of 2^-FracBits units, so that a halving is the exact division it is in  *)
(* binary floating point; areas are then in 2^-(2*FracBits) units and      *)
(* volumes and masses in 2^-(3*FracBits) units.  A mean, the one other     *)
(* division, is held as a reduced fraction <<numerator, denominator>>.     *)
(*                                                                         *)
(* Randomness.  Every draw of the generator (the axis of a split, the rows *)
(* of a sample) is a nondeterministic choice, kept in the variable rng.    *)
(*                                                                         *)
(* Time.  The wall-clock columns of model.run (modelCreationTime and the   *)
(* columns summed from it) feed no particle and no aggregate, and are left *)
(* out of the table.                                                       *)
(***************************************************************************)
EXTENDS Integers, Sequences, FiniteSets, Bags, TLC

\* ------------------------------------------------------------- bounds
\* model.run is called with end in 0..MaxEnd.
MaxEnd == 2
\* linearGrowthModel.run is called with timeStep in 0..MaxTimeStep.
MaxTimeStep == 4
\* createParticles is called on populations of at most MaxPop particles.
MaxPop == 11
\* growth is called on profiles of every size 0..MaxProfile.
MaxProfile == 1010
\* Of the orders in which a sample can list the rows it drew, the ascending
\* and the descending one and their rotations by 1..MaxShift are enumerated.
MaxShift == 1
\* Binary digits kept after the point of a length.
FracBits == 6

Unit == 2^FracBits

\* The parent materials the entry points are called with: side1, side2,
\* side3, density.  Nothing in the code restricts them to positive numbers.
ParentInputs ==
    { <<1, 1, 1, 1>>, <<3, 2, 1, 2>>, <<0, 2, 1, 1>>, <<-1, 1, 2, -1>> }

\* ------------------------------------------------------------ numbers
RECURSIVE GCD(_, _)
GCD(a, b) == IF b = 0 THEN a ELSE GCD(b, a % b)

Abs(x) == IF x < 0 THEN -x ELSE x

\* The quotient a/b as a reduced fraction; <<0, 0>> stands for nan (0/0).
Ratio(a, b) ==
    IF b = 0 THEN <<0, 0>>
    ELSE LET g == GCD(Abs(a), b) IN <<a \div g, b \div g>>

RECURSIVE SeqSum(_)
SeqSum(s) == IF s = <<>> THEN 0 ELSE Head(s) + SeqSum(Tail(s))

\* x/2
Half(x) == x \div 2

\* ------------------------------------------------- model.py: particle
particle(side1, side2, side3, density) ==
    LET volume == side1 * side2 * side3
    IN  [ d1 |-> side1, d2 |-> side2, d3 |-> side3, density |-> density,
          surfaceArea |-> (2*side1*side2) + (2*side2*side3) + (2*side3*side1),
          volume |-> volume,
          mass |-> density * volume ]

\* A slip of divide: on axis 3 the second particle keeps the whole side.
divide_keepSide3(self, number) ==
    IF number = 1 THEN
        LET newSide1 == Half(self.d1)
        IN  << particle(newSide1, self.d2, self.d3, self.density),
               particle(newSide1, self.d2, self.d3, self.density) >>
    ELSE IF number = 2 THEN
        LET newSide2 == Half(self.d2)
        IN  << particle(self.d1, newSide2, self.d3, self.density),
               particle(self.d1, newSide2, self.d3, self.density) >>
    ELSE
        LET newSide3 == Half(self.d3)
        IN  << particle(self.d1, self.d2, newSide3, self.density),
               particle(self.d1, self.d2, self.d3, self.density) >>

\* A slip of divide: axis 3 halves side 2, so side 3 is never chosen.
divide_noAxis3(self, number) ==
    IF number = 1 THEN
        LET newSide1 == Half(self.d1)
        IN  << particle(newSide1, self.d2, self.d3, self.density),
               particle(newSide1, self.d2, self.d3, self.density) >>
    ELSE
        LET newSide2 == Half(self.d2)
        IN  << particle(self.d1, newSide2, self.d3, self.density),
               particle(self.d1, newSide2, self.d3, self.density) >>

\* particle.divide, with number the generator's draw from 1..3.
divide(self, number) ==
    IF number = 1 THEN
        LET newSide1 == Half(self.d1)
        IN  << particle(newSide1, self.d2, self.d3, self.density),
               particle(newSide1, self.d2, self.d3, self.density) >>
    ELSE IF number = 2 THEN
        LET newSide2 == Half(self.d2)
        IN  << particle(self.d1, newSide2, self.d3, self.density),
               particle(self.d1, newSide2, self.d3, self.density) >>
    ELSE
        LET newSide3 == Half(self.d3)
        IN  << particle(self.d1, self.d2, newSide3, self.density),
               particle(self.d1, self.d2, newSide3, self.density) >>

\* A slip of divideParticles: only the first of the two new particles is kept.
RECURSIVE divideParticles_firstOnly(_, _)
divideParticles_firstOnly(oldParticles, numbers) ==
    IF oldParticles = <<>> THEN <<>>
    ELSE << divide(Head(oldParticles), Head(numbers))[1] >>
         \o divideParticles_firstOnly(Tail(oldParticles), Tail(numbers))

\* divideParticles: the loop over oldParticles, numbers[i] being the draw of
\* the i-th item's divide.
RECURSIVE divideParticles(_, _)
divideParticles(oldParticles, numbers) ==
    IF oldParticles = <<>> THEN <<>>
    ELSE divide(Head(oldParticles), Head(numbers))
         \o divideParticles(Tail(oldParticles), Tail(numbers))

\* A slip of characteristics: the volumes are summed, not averaged.
characteristics_sumVolume(particles) ==
    LET numOfParticles == Len(particles)
        SAarray == [i \in 1..Len(particles) |-> particles[i].surfaceArea]
        volumeArray == [i \in 1..Len(particles) |-> particles[i].volume]
    IN  [ specificSA |-> SeqSum(SAarray),
          meanVolume |-> Ratio(SeqSum(volumeArray), 1),
          numOfParticles |-> numOfParticles ]

\* characteristics: specificSA, meanVolume, numOfParticles.
characteristics(particles) ==
    LET numOfParticles == Len(particles)
        SAarray == [i \in 1..Len(particles) |-> particles[i].surfaceArea]
        volumeArray == [i \in 1..Len(particles) |-> particles[i].volume]
    IN  [ specificSA |-> SeqSum(SAarray),
          meanVolume |-> Ratio(SeqSum(volumeArray), Len(volumeArray)),
          numOfParticles |-> numOfParticles ]

\* The empty table model.run builds before its loop.
emptyOutputDF(end) ==
    [i \in 1..end |-> [ timeStep |-> i, numberOfParticles |-> 0,
                        specificSurfaceArea |-> 0,
                        particleVolume |-> Ratio(0, 1) ]]

\* --------------------------------------- what a call ends with
Returned(v) == [error |-> "", value |-> v]
Raised(e) == [error |-> e, value |-> <<>>]

\* ------------------------------------------------ linearGrowthModel.py
\* parentMaterial: the one-row dataframe.
parentMaterial(side1, side2, side3, density) ==
    LET volume == side1 * side2 * side3
        mass == volume * density
        SA == (2*side1*side2) + (2*side2*side3) + (2*side1*side3)
    IN  << [ id |-> 1, side1 |-> side1, side2 |-> side2, side3 |-> side3,
             density |-> density, volume |-> volume, mass |-> mass,
             SA |-> SA ] >>

\* A slip of growth: the first breakpoint written < 10.
growth_lessThan10(soilProfile) ==
    LET existingParticles == Len(soilProfile)
    IN  IF existingParticles < 10 THEN 1
        ELSE IF existingParticles <= 20 THEN 10
        ELSE IF existingParticles <= 50 THEN 20
        ELSE IF existingParticles <= 100 THEN 50
        ELSE IF existingParticles <= 200 THEN 100
        ELSE IF existingParticles <= 300 THEN 200
        ELSE IF existingParticles <= 1000 THEN 300
        ELSE 1000

\* A slip of growth: the last two values exchanged.
growth_swappedTop(soilProfile) ==
    LET existingParticles == Len(soilProfile)
    IN  IF existingParticles <= 10 THEN 1
        ELSE IF existingParticles <= 20 THEN 10
        ELSE IF existingParticles <= 50 THEN 20
        ELSE IF existingParticles <= 100 THEN 50
        ELSE IF existingParticles <= 200 THEN 100
        ELSE IF existingParticles <= 300 THEN 200
        ELSE IF existingParticles <= 1000 THEN 1000
        ELSE 300

\* growth: the cascade of conditions as written; -1 stands for the name
\* newParticles left unbound when no condition holds.
growth(soilProfile) ==
    LET existingParticles == Len(soilProfile)
    IN  IF existingParticles <= 10 THEN 1
        ELSE IF existingParticles <= 20 /\ existingParticles > 10 THEN 10
        ELSE IF existingParticles <= 50 /\ existingParticles > 20 THEN 20
        ELSE IF existingParticles <= 100 /\ existingParticles > 50 THEN 50
        ELSE IF existingParticles <= 200 /\ existingParticles > 100 THEN 100
        ELSE IF existingParticles <= 300 /\ existingParticles > 200 THEN 200
        ELSE IF existingParticles <= 1000 /\ existingParticles > 300 THEN 300
        ELSE IF existingParticles > 1000 THEN 1000
        ELSE -1

Range(s) == {s[i] : i \in 1..Len(s)}

\* DataFrame.sample(n, axis=0), replace=False: draw lists the positions of the
\* rows the generator drew, in the order drawn.  It raises ValueError when
\* more rows are asked for than the frame holds.
sample(soilProfile, n, draw) ==
    IF n > Len(soilProfile) THEN Raised("ValueError")
    ELSE Returned([i \in 1..n |-> soilProfile[draw[i]]])

\* The positions of S in ascending order.
RECURSIVE Asc(_)
Asc(S) ==
    IF S = {} THEN <<>>
    ELSE LET m == CHOOSE x \in S : \A y \in S : x <= y
         IN  <<m>> \o Asc(S \ {m})

Reverse(s) == [i \in 1..Len(s) |-> s[Len(s) + 1 - i]]

Rotate(s, r) == [i \in 1..Len(s) |-> s[((i - 1 + r) % Len(s)) + 1]]

\* The draws of a sample of n rows out of N: every set of n distinct
\* positions, in the enumerated orders; the empty draw when sample raises
\* before drawing.
Draws(N, n) ==
    IF n > N \/ n < 1 THEN { <<>> }
    ELSE UNION { { Rotate(Asc(S), r) : r \in 0..MaxShift }
                 \cup { Rotate(Reverse(Asc(S)), r) : r \in 0..MaxShift }
                 : S \in { T \in SUBSET (1..N) : Cardinality(T) = n } }

\* The three column updates of a division along dividedSide.
halveSide(row, dividedSide) ==
    IF dividedSide = 1 THEN [row EXCEPT !.side1 = Half(row.side1)]
    ELSE IF dividedSide = 2 THEN [row EXCEPT !.side2 = Half(row.side2)]
    ELSE IF dividedSide = 3 THEN [row EXCEPT !.side3 = Half(row.side3)]
    ELSE row

\* The recomputation of volume, mass and SA of a row.
recompute(row) ==
    LET volume == row.side1 * row.side2 * row.side3
    IN  [row EXCEPT !.volume = volume,
                    !.mass = row.density * volume,
                    !.SA = (2*row.side1*row.side2) + (2*row.side2*row.side3)
                           + (2*row.side1*row.side3)]

\* A slip of createParticles: a sample larger than the frame is cut to the
\* frame instead of raising.
createParticles_clamped(soilProfile, draw, dividedSide) ==
    LET n == growth(soilProfile)
        newNum == IF n > Len(soilProfile) THEN Len(soilProfile) ELSE n
        taken == [i \in 1..(IF Len(draw) < newNum THEN Len(draw) ELSE newNum)
                     |-> soilProfile[draw[i]]]
        ids == {taken[i].id : i \in 1..Len(taken)}
        keep(row) == row.id \notin ids
        divided == [i \in 1..Len(taken) |-> recompute(halveSide(taken[i], dividedSide))]
        newProfile == SelectSeq(soilProfile, keep) \o divided \o divided
    IN  Returned([i \in 1..Len(newProfile) |-> [newProfile[i] EXCEPT !.id = i]])

\* A slip of createParticles: the divided rows are appended once.
createParticles_oneCopy(soilProfile, draw, dividedSide) ==
    LET newNum == growth(soilProfile)
        sampled == sample(soilProfile, newNum, draw)
    IN  IF sampled.error # "" THEN sampled
        ELSE
        LET taken == sampled.value
            ids == {taken[i].id : i \in 1..Len(taken)}
            keep(row) == row.id \notin ids
            divided == [i \in 1..Len(taken) |-> recompute(halveSide(taken[i], dividedSide))]
            newProfile == SelectSeq(soilProfile, keep) \o divided
        IN  Returned([i \in 1..Len(newProfile) |-> [newProfile[i] EXCEPT !.id = i]])

\* A slip of createParticles: the ids of the old rows are kept, and only the
\* appended rows are numbered on.
createParticles_staleIds(soilProfile, draw, dividedSide) ==
    LET newNum == growth(soilProfile)
        sampled == sample(soilProfile, newNum, draw)
    IN  IF sampled.error # "" THEN sampled
        ELSE
        LET taken == sampled.value
            ids == {taken[i].id : i \in 1..Len(taken)}
            keep(row) == row.id \notin ids
            divided == [i \in 1..Len(taken) |-> recompute(halveSide(taken[i], dividedSide))]
            kept == SelectSeq(soilProfile, keep)
            newProfile == kept \o divided \o divided
        IN  Returned([i \in 1..Len(newProfile) |->
                        IF i <= Len(kept) THEN newProfile[i]
                        ELSE [newProfile[i] EXCEPT !.id = i]])

\* createParticles, with draw the outcome of the sample and dividedSide the
\* generator's draw from 1..3.
createParticles(soilProfile, draw, dividedSide) ==
    LET newNum == growth(soilProfile)
        sampled == sample(soilProfile, newNum, draw)
    IN  IF sampled.error # "" THEN sampled
        ELSE
        LET particlesToDivide0 == sampled.value
            particlesToDivideId ==
                [i \in 1..Len(particlesToDivide0) |-> particlesToDivide0[i].id]
            \* query("id != [...]"): the rows whose id is not in the list
            queryStr(row) == row.id \notin Range(particlesToDivideId)
            oldSoilProfile == SelectSeq(soilProfile, queryStr)
            particlesToDivide ==
                [i \in 1..Len(particlesToDivide0) |->
                    recompute(halveSide(particlesToDivide0[i], dividedSide))]
            soilParticlesList ==
                oldSoilProfile \o particlesToDivide \o particlesToDivide
            particleNum == Len(soilParticlesList)
            newProfile ==
                [i \in 1..particleNum |-> [soilParticlesList[i] EXCEPT !.id = i]]
        IN  Returned(newProfile)

\* id.max()
RECURSIVE SetMax(_)
SetMax(S) ==
    LET x == CHOOSE y \in S : TRUE
    IN  IF S = {x} THEN x
        ELSE LET m == SetMax(S \ {x}) IN IF x > m THEN x ELSE m

\* The aggregates linearGrowthModel.run writes for newProfile.
aggregates(newProfile) ==
    LET n == Len(newProfile)
    IN  [ numOfParticles |-> SetMax({newProfile[i].id : i \in 1..n}),
          specificSA |-> SeqSum([i \in 1..n |-> newProfile[i].SA]),
          meanParticleMass |-> Ratio(SeqSum([i \in 1..n |-> newProfile[i].mass]), n),
          meanParticleVolume |-> Ratio(SeqSum([i \in 1..n |-> newProfile[i].volume]), n) ]

\* The table of zeros linearGrowthModel.run builds before its loop.
zerosOutputDF(timeStep) ==
    [i \in 1..timeStep |-> [ timeStep |-> 0, numOfParticles |-> 0,
                             meanParticleMass |-> Ratio(0, 1),
                             meanParticleVolume |-> Ratio(0, 1),
                             specificSA |-> 0 ]]

\* ------------------------------------------------------- the state
VARIABLES
    entry,       \* the function the caller invokes
    arg,         \* its argument: a particle, a dataframe, or the four numbers
    steps,       \* end / timeStep of a run (0 for the other entries)
    pc,          \* "call", "loop", "done", "raised"
    oldProfile,  \* run: the population carried from step to step
    outputDF,    \* run: the table
    index,       \* run: the number of rows the loop has gone through
    rng,         \* the generator's draws in the latest step
    history,     \* history variable: every newProfile the loop has produced
    returned     \* what the call ended with

vars == << entry, arg, steps, pc, oldProfile, outputDF, index, rng, history,
           returned >>

NoDraw == [sample |-> <<>>, numbers |-> <<>>]

\* The arguments as lengths in units and a density.
Scaled(in) == << in[1] * Unit, in[2] * Unit, in[3] * Unit, in[4] >>

ParentParticle(in) ==
    particle(Scaled(in)[1], Scaled(in)[2], Scaled(in)[3], Scaled(in)[4])

ParentProfile(in) ==
    parentMaterial(Scaled(in)[1], Scaled(in)[2], Scaled(in)[3], Scaled(in)[4])

\* The particles divide is called on: the parents and their children.
DivideArgs ==
    { ParentParticle(in) : in \in ParentInputs }
    \cup { divide(ParentParticle(in), n)[1] : in \in ParentInputs, n \in 1..3 }

\* The population j steps of createParticles after the parent, each step
\* dividing the first rows of the frame along the axes 1, 2, 3 in turn.
RECURSIVE Seed(_, _)
Seed(in, j) ==
    IF j = 0 THEN ParentProfile(in)
    ELSE LET before == Seed(in, j - 1)
         IN  createParticles(before, Asc(1..growth(before)), ((j - 1) % 3) + 1).value

\* The populations createParticles is called on: the empty frame, and the
\* populations above of at most MaxPop rows.
Seeds ==
    { <<>> }
    \cup { p \in { Seed(in, j) : in \in ParentInputs, j \in 0..(MaxPop - 1) }
             : Len(p) <= MaxPop }

\* A frame of n rows; growth reads nothing of a frame but its number of rows.
Replicated(n) == [i \in 1..n |-> [ParentProfile(<<1, 1, 1, 1>>)[1] EXCEPT !.id = i]]

Init ==
    /\ \/ entry = "divide" /\ arg \in DivideArgs /\ steps = 0
       \/ entry = "growth" /\ steps = 0
          /\ arg \in Seeds \cup { Replicated(n) : n \in 0..MaxProfile }
       \/ entry = "createParticles" /\ arg \in Seeds /\ steps = 0
       \/ entry = "model.run" /\ steps \in 0..MaxEnd
          /\ arg \in { ParentParticle(in) : in \in ParentInputs }
       \/ entry = "linearGrowthModel.run" /\ steps \in 0..MaxTimeStep
          /\ arg \in { Scaled(in) : in \in ParentInputs }
    /\ pc = "call"
    /\ oldProfile = <<>>
    /\ outputDF = <<>>
    /\ index = 0
    /\ rng = NoDraw
    /\ history = <<>>
    /\ returned = Returned(<<>>)

\* ----------------------------------------------------- the entry points
\* particle.divide() on arg.
Divide ==
    /\ entry = "divide" /\ pc = "call"
    /\ \E number \in 1..3 :
          /\ returned' = Returned(divide(arg, number))
          /\ rng' = [sample |-> <<>>, numbers |-> <<number>>]
    /\ pc' = "done"
    /\ UNCHANGED << entry, arg, steps, oldProfile, outputDF, index, history >>

\* growth(arg).
Growth ==
    /\ entry = "growth" /\ pc = "call"
    /\ returned' = Returned(growth(arg))
    /\ pc' = "done"
    /\ UNCHANGED << entry, arg, steps, oldProfile, outputDF, index, rng, history >>

\* createParticles(arg).
CreateParticles ==
    /\ entry = "createParticles" /\ pc = "call"
    /\ Len(arg) <= MaxPop
    /\ \E draw \in Draws(Len(arg), growth(arg)), dividedSide \in 1..3 :
          LET out == createParticles(arg, draw, dividedSide)
          IN  /\ returned' = out
              /\ pc' = IF out.error = "" THEN "done" ELSE "raised"
              /\ rng' = IF out.error = "" 
                        THEN [sample |-> draw, numbers |-> <<dividedSide>>]
                        ELSE NoDraw
    /\ UNCHANGED << entry, arg, steps, oldProfile, outputDF, index, history >>

\* model.run(arg, steps): the table and the first profile.
ModelRunSetup ==
    /\ entry = "model.run" /\ pc = "call"
    /\ outputDF' = emptyOutputDF(steps)
    /\ oldProfile' = << arg >>
    /\ index' = 0
    /\ pc' = "loop"
    /\ UNCHANGED << entry, arg, steps, rng, history, returned >>

\* model.run: one pass of the loop over the rows of the table.
ModelRunLoop ==
    /\ entry = "model.run" /\ pc = "loop"
    /\ index < Len(outputDF)
    /\ \E numbers \in [1..Len(oldProfile) -> 1..3] :
          LET newProfile == divideParticles(oldProfile, numbers)
              c == characteristics(newProfile)
          IN  /\ outputDF' = [outputDF EXCEPT ![index + 1] =
                     [@ EXCEPT !.specificSurfaceArea = c.specificSA,
                               !.particleVolume = c.meanVolume,
                               !.numberOfParticles = c.numOfParticles]]
              /\ oldProfile' = newProfile
              /\ history' = Append(history, newProfile)
              /\ rng' = [sample |-> <<>>, numbers |-> numbers]
    /\ index' = index + 1
    /\ UNCHANGED << entry, arg, steps, pc, returned >>

\* model.run: return outputDF.
ModelRunReturn ==
    /\ entry = "model.run" /\ pc = "loop"
    /\ index = Len(outputDF)
    /\ returned' = Returned(outputDF)
    /\ pc' = "done"
    /\ UNCHANGED << entry, arg, steps, oldProfile, outputDF, index, rng, history >>

\* linearGrowthModel.run(steps, arg): the parent material and the table.
LinearRunSetup ==
    /\ entry = "linearGrowthModel.run" /\ pc = "call"
    /\ oldProfile' = parentMaterial(arg[1], arg[2], arg[3], arg[4])
    /\ outputDF' = zerosOutputDF(steps)
    /\ index' = 0
    /\ pc' = "loop"
    /\ UNCHANGED << entry, arg, steps, rng, history, returned >>

\* A slip of the loop: newProfile is not carried to the next pass.
LinearRunLoop_notCarried ==
    /\ entry = "linearGrowthModel.run" /\ pc = "loop"
    /\ index < Len(outputDF)
    /\ \E draw \in Draws(Len(oldProfile), growth(oldProfile)), dividedSide \in 1..3 :
          LET out == createParticles(oldProfile, draw, dividedSide)
              a == aggregates(out.value)
          IN  /\ out.error = ""
              /\ outputDF' = [outputDF EXCEPT ![index + 1] =
                     [ timeStep |-> index + 1,
                       numOfParticles |-> a.numOfParticles,
                       specificSA |-> a.specificSA,
                       meanParticleMass |-> a.meanParticleMass,
                       meanParticleVolume |-> a.meanParticleVolume ]]
              /\ history' = Append(history, out.value)
              /\ rng' = [sample |-> draw, numbers |-> <<dividedSide>>]
    /\ index' = index + 1
    /\ UNCHANGED << entry, arg, steps, pc, oldProfile, returned >>

\* linearGrowthModel.run: one pass of the loop over the rows of the table.
\* An error raised by createParticles ends the call.
LinearRunLoop ==
    /\ entry = "linearGrowthModel.run" /\ pc = "loop"
    /\ index < Len(outputDF)
    /\ \E draw \in Draws(Len(oldProfile), growth(oldProfile)), dividedSide \in 1..3 :
          LET out == createParticles(oldProfile, draw, dividedSide)
          IN  IF out.error # ""
              THEN /\ pc' = "raised"
                   /\ returned' = out
                   /\ UNCHANGED << outputDF, oldProfile, history, rng, index >>
              ELSE LET newProfile == out.value
                       a == aggregates(newProfile)
                   IN  /\ outputDF' = [outputDF EXCEPT ![index + 1] =
                              [ timeStep |-> index + 1,
                                numOfParticles |-> a.numOfParticles,
                                specificSA |-> a.specificSA,
                                meanParticleMass |-> a.meanParticleMass,
                                meanParticleVolume |-> a.meanParticleVolume ]]
                       /\ oldProfile' = newProfile
                       /\ history' = Append(history, newProfile)
                       /\ rng' = [sample |-> draw, numbers |-> <<dividedSide>>]
                       /\ index' = index + 1
                       /\ UNCHANGED << pc, returned >>
    /\ UNCHANGED << entry, arg, steps >>

\* linearGrowthModel.run: return outputDF.
LinearRunReturn ==
    /\ entry = "linearGrowthModel.run" /\ pc = "loop"
    /\ index = Len(outputDF)
    /\ returned' = Returned(outputDF)
    /\ pc' = "done"
    /\ UNCHANGED << entry, arg, steps, oldProfile, outputDF, index, rng, history >>

Next ==
    \/ Divide
    \/ Growth
    \/ CreateParticles
    \/ ModelRunSetup
    \/ ModelRunLoop
    \/ ModelRunReturn
    \/ LinearRunSetup
    \/ LinearRunLoop
    \/ LinearRunReturn

Spec == Init /\ [][Next]_vars

\* ------------------------------------------------------------ claims
IsModelRun == entry = "model.run"
IsLinearRun == entry = "linearGrowthModel.run"

\* The population a run starts from.
StartProfile ==
    IF IsModelRun THEN << arg >>
    ELSE parentMaterial(arg[1], arg[2], arg[3], arg[4])

\* The population step t of a run was given.
Before(t) == IF t = 1 THEN StartProfile ELSE history[t - 1]

Distinct(s) == \A i, j \in 1..Len(s) : s[i] = s[j] => i = j

\* C1: binary-split model: the population after t applications of
\* divideParticles to (parentMaterial,) has exactly 2^t particles, t >= 0,
\* and the record run writes for step t has numberOfParticles = 2^t,
\* whatever axes were drawn.
C1_PopulationDoubles ==
    IsModelRun /\ pc # "call" =>
        /\ Len(oldProfile) = 2^index
        /\ Len(history) = index
        /\ \A t \in 1..index :
              /\ Len(history[t]) = 2^t
              /\ outputDF[t].numberOfParticles = 2^t
        /\ pc = "done" =>
              \A t \in 1..steps : returned.value[t].numberOfParticles = 2^t

C1_Witness ==
    /\ IsModelRun /\ pc = "done" /\ steps = 2
    /\ returned.value[2].numberOfParticles = 4
    /\ rng.numbers = << 1, 3 >>

\* C2: linear-growth model: createParticles on a population of N >= 1
\* particles reachable from a single parent returns a population of exactly
\* N + growth(N) particles (N - growth(N) retained, two copies of each of the
\* growth(N) selected); one step from the single parent gives 2.
C2_SizeGrowsByGrowth ==
    /\ entry = "createParticles" /\ pc = "done" =>
          /\ Len(arg) >= 1
          /\ Len(rng.sample) = growth(arg)
          /\ Len(returned.value) = (Len(arg) - growth(arg)) + 2 * growth(arg)
          /\ Len(returned.value) = Len(arg) + growth(arg)
          /\ Len(arg) = 1 => Len(returned.value) = 2
    /\ IsLinearRun /\ pc # "call" =>
          \A t \in 1..Len(history) :
              /\ Len(history[t]) = Len(Before(t)) + growth(Before(t))
              /\ t = 1 => Len(history[t]) = 2

C2_Witness ==
    /\ entry = "createParticles" /\ pc = "done"
    /\ Len(arg) = 11 /\ Len(rng.sample) = 10 /\ Len(returned.value) = 21

\* The step table of the growth policy, by population size.
GrowthTable(n) ==
    CASE n <= 10 -> 1
      [] n \in 11..20 -> 10
      [] n \in 21..50 -> 20
      [] n \in 51..100 -> 50
      [] n \in 101..200 -> 100
      [] n \in 201..300 -> 200
      [] n \in 301..1000 -> 300
      [] n > 1000 -> 1000

\* C3: growth(population) depends only on the population size n and equals
\* the step table for every n: 1 up to 10, 10 for 11..20, 20 for 21..50, 50
\* for 51..100, 100 for 101..200, 200 for 201..300, 300 for 301..1000, 1000
\* above 1000; no size is left without a value.
C3_GrowthIsTheTable ==
    entry = "growth" /\ pc = "done" =>
        /\ returned.error = ""
        /\ returned.value = GrowthTable(Len(arg))
        /\ returned.value \in {1, 10, 20, 50, 100, 200, 300, 1000}
        /\ Len(arg) = 10 => returned.value = 1
        /\ Len(arg) = 11 => returned.value = 10
        /\ Len(arg) = 20 => returned.value = 10
        /\ Len(arg) = 21 => returned.value = 20
        /\ Len(arg) = 1000 => returned.value = 300
        /\ Len(arg) = 1001 => returned.value = 1000

C3_Witness ==
    entry = "growth" /\ pc = "done" /\ Len(arg) = 1001 /\ returned.value = 1000

\* The sides of a particle by axis.
Side(p, a) == IF a = 1 THEN p.d1 ELSE IF a = 2 THEN p.d2 ELSE p.d3

\* q is p with side a halved and nothing else changed.
HalvedAlong(p, q, a) ==
    /\ 2 * Side(q, a) = Side(p, a)
    /\ \A b \in (1..3) \ {a} : Side(q, b) = Side(p, b)
    /\ q.density = p.density

C4_Children ==
    /\ entry = "divide" /\ pc = "done" =>
          LET c1 == returned.value[1]
              c2 == returned.value[2]
          IN  /\ Len(returned.value) = 2
              /\ c1 = c2
              /\ \E a \in 1..3 : HalvedAlong(arg, c1, a)
              /\ (\A a \in 1..3 : Side(arg, a) # 0) =>
                    Cardinality({a \in 1..3 : Side(c1, a) # Side(arg, a)}) = 1
    /\ entry = "divide" /\ pc = "call" =>
          \A a \in 1..3 :
              ENABLED ( /\ Divide
                        /\ HalvedAlong(arg, returned'.value[1], a)
                        /\ Side(arg, a) # 0 =>
                              Side(returned'.value[1], a) # Side(arg, a) )

C4_ParentUntouched == entry = "divide" => arg' = arg

\* C4: particle.divide() on a particle with sides (d1, d2, d3) and density
\* rho returns two particles equal to each other, in which exactly one of the
\* three sides is half the parent's and the other two sides and the density
\* are the parent's; each of the three axes is a possible choice; the
\* parent's own fields are unchanged by the call.
C4_DivideHalvesOneSide == []C4_Children /\ [][C4_ParentUntouched]_vars

C4_Witness ==
    /\ entry = "divide" /\ pc = "done" /\ rng.numbers = << 3 >>
    /\ arg.d3 # 0 /\ 2 * returned.value[2].d3 = arg.d3

RECURSIVE SumVolume(_)
SumVolume(particles) ==
    IF particles = <<>> THEN 0
    ELSE Head(particles).volume + SumVolume(Tail(particles))

\* C5: binary-split model: total volume is conserved.  The two children of
\* a split have volumes summing to the parent's, so after every step t >= 0
\* of a run the volumes of the population sum to the parent material's
\* volume, and the recorded particleVolume times numberOfParticles is the
\* parent's volume.
C5_VolumeConserved ==
    /\ entry = "divide" /\ pc = "done" =>
          returned.value[1].volume + returned.value[2].volume = arg.volume
    /\ IsModelRun /\ pc # "call" =>
          /\ SumVolume(oldProfile) = arg.volume
          /\ \A t \in 1..index :
                /\ SumVolume(history[t]) = arg.volume
                /\ outputDF[t].particleVolume[2] > 0
                /\ outputDF[t].particleVolume[1] * outputDF[t].numberOfParticles
                      = arg.volume * outputDF[t].particleVolume[2]

C5_Witness ==
    /\ IsModelRun /\ pc = "done" /\ steps = 2 /\ arg.volume > 0
    /\ rng.numbers = << 2, 3 >>
    /\ returned.value[2].particleVolume[1] * 4
          = arg.volume * returned.value[2].particleVolume[2]

\* C6: constructing a particle or a parent material fails whenever a side or
\* the density is not positive; no population holding a particle with a
\* non-positive side or density is ever built.
C6_NonPositiveRejected ==
    /\ IsModelRun =>
          \A i \in 1..Len(oldProfile) :
                /\ oldProfile[i].d1 > 0 /\ oldProfile[i].d2 > 0
                /\ oldProfile[i].d3 > 0 /\ oldProfile[i].density > 0
    /\ IsLinearRun =>
          \/ pc = "raised"
          \/ pc = "call"
          \/ \A i \in 1..Len(oldProfile) :
                /\ oldProfile[i].side1 > 0 /\ oldProfile[i].side2 > 0
                /\ oldProfile[i].side3 > 0 /\ oldProfile[i].density > 0

\* C7: linear-growth model: when createParticles is given a population for
\* which growth(size) exceeds the number of particles present (the empty
\* population, where growth gives 1), the step fails with an error and yields
\* no new population; a step never divides fewer particles than growth asks
\* for nor samples a particle twice; inside run the failure ends the run with
\* no table returned.
C7_InfeasibleSampleFails ==
    /\ entry = "createParticles" /\ pc # "call" =>
          /\ growth(arg) > Len(arg) =>
                /\ pc = "raised"
                /\ returned.error = "ValueError"
                /\ returned.value = <<>>
          /\ pc = "done" =>
                /\ Len(rng.sample) = growth(arg)
                /\ Distinct(rng.sample)
    /\ IsLinearRun =>
          /\ pc = "raised" => returned.error = "ValueError" /\ returned.value = <<>>
          /\ pc = "done" => returned.error = "" /\ index = steps
          /\ index >= 1 =>
                /\ Len(rng.sample) = growth(Before(index))
                /\ Distinct(rng.sample)

C7_Witness ==
    /\ entry = "createParticles" /\ arg = <<>> /\ pc = "raised"
    /\ returned.error = "ValueError"

\* The population a state holds, for the entries that hold one.
Population ==
    IF entry \in {"growth", "createParticles"} THEN arg
    ELSE IF IsLinearRun /\ pc # "call" THEN oldProfile
    ELSE <<>>

\* C8: linear-growth model: in every state run reaches from a single parent
\* the number of particles asked for satisfies 1 <= growth(size) <= size, so
\* the sample without replacement is feasible at every step; growth(size)
\* equals size only at size 1 and is strictly smaller from size 2 on.
C8_SampleAlwaysFeasible ==
    /\ Len(Population) >= 1 =>
          /\ 1 <= growth(Population)
          /\ growth(Population) <= Len(Population)
          /\ growth(Population) = Len(Population) <=> Len(Population) = 1
    /\ IsLinearRun => pc # "raised"

C8_Witness ==
    /\ IsLinearRun /\ pc = "loop" /\ index = 3
    /\ Len(oldProfile) = 4 /\ growth(oldProfile) = 1

\* The record of step t holds the aggregates of the population p.
HoldsAggregates(row, p) ==
    IF IsModelRun
    THEN /\ row.numberOfParticles = characteristics(p).numOfParticles
         /\ row.specificSurfaceArea = characteristics(p).specificSA
         /\ row.particleVolume = characteristics(p).meanVolume
    ELSE /\ row.numOfParticles = aggregates(p).numOfParticles
         /\ row.specificSA = aggregates(p).specificSA
         /\ row.meanParticleMass = aggregates(p).meanParticleMass
         /\ row.meanParticleVolume = aggregates(p).meanParticleVolume

\* after is what one step transition makes of before, for some draws.
OneStep(before, after) ==
    IF IsModelRun
    THEN \E numbers \in [1..Len(before) -> 1..3] :
            after = divideParticles(before, numbers)
    ELSE \E draw \in Draws(Len(before), growth(before)), dividedSide \in 1..3 :
            Returned(after) = createParticles(before, draw, dividedSide)

Unfilled(row) ==
    IF IsModelRun THEN row.numberOfParticles = 0 ELSE row.numOfParticles = 0

C9_Records ==
    (IsModelRun \/ IsLinearRun) /\ pc # "call" =>
        /\ Len(outputDF) = steps
        /\ index <= steps
        /\ Len(history) = index
        /\ oldProfile = (IF index = 0 THEN StartProfile ELSE history[index])
        /\ \A i \in 1..index :
              /\ outputDF[i].timeStep = i
              /\ HoldsAggregates(outputDF[i], history[i])
              /\ OneStep(Before(i), history[i])
        /\ \A i \in (index + 1)..steps : Unfilled(outputDF[i])
        /\ pc = "done" =>
              /\ index = steps
              /\ returned.value = outputDF
              /\ Len(returned.value) = steps

C9_NeverRevisited ==
    (IsModelRun \/ IsLinearRun) /\ pc = "loop" =>
        /\ index' \in {index, index + 1}
        /\ \A i \in 1..index : outputDF'[i] = outputDF[i]

\* C9: for both drivers, run with n >= 1 steps returns exactly n records; the
\* i-th record has step index i and holds the aggregates of the population
\* reached after exactly i step transitions from the parent, each step taking
\* the previous step's output as its input; the records are filled in
\* increasing step order, and once step i's count, surface area and means are
\* written no later step changes them.
C9_OneRecordPerStep == []C9_Records /\ [][C9_NeverRevisited]_vars

C9_Witness ==
    /\ IsLinearRun /\ pc = "done" /\ steps = 3
    /\ Len(returned.value) = 3
    /\ returned.value[3].timeStep = 3 /\ returned.value[3].numOfParticles = 4

\* A row without its id.
Body(row) ==
    [ side1 |-> row.side1, side2 |-> row.side2, side3 |-> row.side3,
      density |-> row.density, volume |-> row.volume, mass |-> row.mass,
      SA |-> row.SA ]

RECURSIVE BagOfBodies(_)
BagOfBodies(rows) ==
    IF rows = <<>> THEN EmptyBag
    ELSE SetToBag({Body(Head(rows))}) (+) BagOfBodies(Tail(rows))

RowSide(row, a) ==
    IF a = 1 THEN row.side1 ELSE IF a = 2 THEN row.side2 ELSE row.side3

\* The bodies b that are the row with side a halved, the other sides and the
\* density kept, and volume, mass and SA those of the new sides.
IsDividedRow(b, row, a) ==
    /\ 2 * RowSide(b, a) = RowSide(row, a)
    /\ \A c \in (1..3) \ {a} : RowSide(b, c) = RowSide(row, c)
    /\ b.density = row.density
    /\ b.volume = b.side1 * b.side2 * b.side3
    /\ b.mass = b.density * b.volume
    /\ b.SA = 2 * (b.side1 * b.side2 + b.side2 * b.side3 + b.side1 * b.side3)

\* after is before with the rows at the positions of draw divided along a.
DividedStep(before, after, draw, a) ==
    LET N == Len(before)
        k == growth(before)
        S == Range(draw)
        keptAt == Asc((1..N) \ S)
        retained == [i \in 1..Len(keptAt) |-> before[keptAt[i]]]
        bodies == {Body(after[i]) : i \in 1..Len(after)}
        divided == [i \in 1..k |->
                      CHOOSE b \in bodies : IsDividedRow(b, before[draw[i]], a)]
    IN  /\ Len(draw) = k /\ Cardinality(S) = k /\ S \subseteq 1..N
        /\ a \in 1..3
        /\ Len(after) = N + k
        /\ {after[i].id : i \in 1..Len(after)} = 1..(N + k)
        /\ \A j \in S : \E b \in bodies : IsDividedRow(b, before[j], a)
        /\ BagOfBodies(after) =
              BagOfBodies(retained) (+) BagOfBodies(divided) (+) BagOfBodies(divided)

C10_Step ==
    /\ entry = "createParticles" /\ pc = "done" =>
          /\ Len(rng.numbers) = 1
          /\ DividedStep(arg, returned.value, rng.sample, rng.numbers[1])
    /\ IsLinearRun /\ index >= 1 =>
          /\ Len(rng.numbers) = 1
          /\ DividedStep(Before(index), history[index], rng.sample, rng.numbers[1])

C10_InputKept ==
    /\ entry = "createParticles" => arg' = arg
    /\ IsLinearRun => \A t \in 1..Len(history) : history'[t] = history[t]

\* C10: linear-growth step: createParticles on a population of size N with
\* k = growth(N) selects k distinct particles, draws one axis a in 1..3 for
\* the whole step, and returns the N - k particles not selected with sides,
\* density, volume, mass and SA unchanged, and exactly two identical copies
\* of each selected particle with side a halved, the other sides and the
\* density unchanged and volume, mass and SA recomputed from the new sides;
\* the ids of the result are exactly 1..N+k, each once, and the input
\* population is not modified.
C10_DividedStep == []C10_Step /\ [][C10_InputKept]_vars

C10_Witness ==
    /\ entry = "createParticles" /\ pc = "done"
    /\ Len(arg) = 11 /\ Len(returned.value) = 21
    /\ rng.sample[1] > rng.sample[2]
    /\ rng.numbers = << 2 >>

\* C11: binary-split model: after every step t every particle of the
\* population has the same volume as every other, and that common volume is
\* the mean volume characteristics reports, the parent's volume over 2^t,
\* whichever axis each split drew.
C11_EqualVolumes ==
    IsModelRun /\ pc # "call" =>
        \A t \in 1..index :
            /\ \A i, j \in 1..Len(history[t]) :
                  history[t][i].volume = history[t][j].volume
            /\ \A i \in 1..Len(history[t]) :
                  /\ history[t][i].volume * 2^t = arg.volume
                  /\ outputDF[t].particleVolume = Ratio(history[t][i].volume, 1)
                  /\ characteristics(history[t]).meanVolume
                        = Ratio(history[t][i].volume, 1)

C11_Witness ==
    /\ IsModelRun /\ pc = "done" /\ steps = 2 /\ arg.volume > 0
    /\ rng.numbers = << 3, 1 >>
    /\ history[2][1].d3 # history[2][3].d3
    /\ history[2][1].volume = history[2][3].volume
    /\ returned.value[2].particleVolume = Ratio(history[2][1].volume, 1)

\* The parent material of a run has three positive sides.
PositiveSides ==
    IF IsModelRun THEN arg.d1 > 0 /\ arg.d2 > 0 /\ arg.d3 > 0
    ELSE arg[1] > 0 /\ arg[2] > 0 /\ arg[3] > 0

\* The parent material's surface area.
ParentSA ==
    IF IsModelRun THEN arg.surfaceArea ELSE StartProfile[1].SA

\* The total surface area recorded for step i (the parent's for step 0).
RecordedSA(i) ==
    IF i = 0 THEN ParentSA
    ELSE IF IsModelRun THEN outputDF[i].specificSurfaceArea
    ELSE outputDF[i].specificSA

\* C12: in both models, for a parent with positive sides, the total surface
\* area of the population strictly increases at every step, for every choice
\* of axes and of sampled particles: the record of step i+1 has a strictly
\* larger specificSA than the record of step i, and step 1's is strictly
\* larger than the parent's surface area.
C12_SurfaceAreaGrows ==
    (IsModelRun \/ IsLinearRun) /\ pc # "call" /\ PositiveSides =>
        \A i \in 1..index : RecordedSA(i) > RecordedSA(i - 1)

C12_Witness ==
    /\ IsLinearRun /\ pc = "done" /\ steps = 4 /\ PositiveSides
    /\ rng.sample = << 2 >> /\ rng.numbers = << 3 >>
    /\ RecordedSA(1) > ParentSA
    /\ RecordedSA(4) > RecordedSA(3)

====
